---- MODULE Spec2Model ----
(***************************************************************************)
(* The two RAG index builders of docusaurus-plugin-aws-nova-assistant:     *)
(*   src/src/scripts/build-rag-index.js             (keyword mode)         *)
(*   src/src/scripts/build-rag-index-embeddings.js  (embedding mode)       *)
(* the chat widget that falls back to canned answers:                      *)
(*   src/src/theme/NovaChat/index.tsx                                      *)
(* and the retrieval query interface of spec.md 4.8.                       *)
(* Text is a sequence of one-character strings, so that splitting,         *)
(* trimming and joining are computed the way the scripts compute them.     *)
(***************************************************************************)
EXTENDS Integers, Sequences, FiniteSets, TLC

VARIABLES
  \* splitIntoChunks, run on its own (SpecChunk)
  content,        \* its argument
  chunkSize,      \* its argument
  overlap,        \* its argument
  sentences,      \* the sentences the for loop has not visited yet
  currentChunk,   \* the running buffer
  splitChunks,    \* the local array chunks: the chunks pushed so far
  cpc,            \* "loop" while iterating, "done" after the return
  \* a run of main() of one of the two builders (Spec)
  mode,           \* "keyword": build-rag-index.js, "embeddings": build-rag-index-embeddings.js
  tree,           \* the content files on disk: absolute path -> document
  config,         \* parseArgs' result
  outDir,         \* whether path.dirname(config.outputFile) exists
  artifact,       \* config.outputFile on disk: "absent", "old", "partial", "written"
  written,        \* the index that a completed writeFileSync stored
  before,         \* outDir and artifact as they were when the run started
  pc,             \* main's position
  docsFiles, blogFiles, allFiles,
  processedFiles, \* files the processing loop has visited
  chunks,         \* main's array chunks
  batchI,         \* the batch loop's index i
  req,            \* per chunk position, its embedding request: "unsent", "pending",
                  \* "fulfilled", "novector" (fulfilled, result.embedding undefined), "rejected"
  errors,         \* main's array errors
  processed,      \* main's counter processed
  bedrockClient,  \* the module-level client handle
  delays,         \* the calls of sleep() whose timer has fired
  modelIds,       \* the modelId of the InvokeModelCommands sent so far
  fatal,          \* the error main() rejected with, "none" before
  printed,        \* whether the top-level catch printed the error
  exitCode,       \* the process's exit status once pc is a final position
  \* one call of a single function, run on its own (the Spec... below)
  call,           \* the function called and its arguments
  ret,            \* what the call returned, once it has
  \* the NovaChat component (SpecChat)
  messages,       \* the state messages: the messages shown
  input,          \* the state input: the textarea's text
  isLoading,      \* the state isLoading
  request,        \* the call of callNovaAPI that handleSend awaits, if any
  enableRag,      \* the widget's configuration value enableRag
  inFlight,       \* the number of backend requests sent and not yet settled
  handleSendCalls \* for every call of handleSend so far, the state it met

cvars == <<content, chunkSize, overlap, sentences, currentChunk, splitChunks, cpc>>

fsvars == <<outDir, artifact, written>>

embvars == <<batchI, req, errors, processed, bedrockClient, delays, modelIds>>

endvars == <<fatal, printed, exitCode>>

bvars == <<mode, tree, config, before, pc, docsFiles, blogFiles, allFiles,
           processedFiles, chunks, fsvars, embvars, endvars>>

fvars == <<call, ret>>

wvars == <<messages, input, isLoading, request, enableRag, inFlight, handleSendCalls>>

vars == <<cvars, bvars, fvars, wvars>>

-----------------------------------------------------------------------------
(* Bounds of the model.                                                    *)

MaxLen == 7       \* longest prose given to splitIntoChunks in SpecChunk
MaxSize == 5      \* largest chunk size tried in SpecChunk
MaxChunks == 6    \* most chunks a modelled site yields in one run

-----------------------------------------------------------------------------
(* Strings.                                                                *)

IsWs(c) == c \in {" ", "\n", "\t"}

IsPunct(c) == c \in {".", "!", "?"}

Min(S) == CHOOSE x \in S : \A y \in S : x <= y

Max(S) == CHOOSE x \in S : \A y \in S : x >= y

\* String.prototype.trim
Trim(s) ==
  LET nonws == {i \in 1..Len(s) : ~IsWs(s[i])}
  IN  IF nonws = {} THEN <<>> ELSE SubSeq(s, Min(nonws), Max(nonws))

\* the last index of the whitespace run that starts at i
WsRunEnd(s, i) ==
  Max({j \in i..Len(s) : \A k \in i..j : IsWs(s[k])})

\* content.split(/(?<=[.!?])\s+/): cut at every maximal whitespace run that
\* directly follows a sentence terminator; the pieces between are returned,
\* an empty last piece included
RECURSIVE SplitAfterPunct(_, _, _)
SplitAfterPunct(s, from, i) ==
  IF i > Len(s) THEN << SubSeq(s, from, Len(s)) >>
  ELSE IF i >= 2 /\ IsPunct(s[i-1]) /\ IsWs(s[i])
       THEN << SubSeq(s, from, i-1) >>
            \o SplitAfterPunct(s, WsRunEnd(s, i) + 1, WsRunEnd(s, i) + 1)
       ELSE SplitAfterPunct(s, from, i+1)

SplitSentences(s) == SplitAfterPunct(s, 1, 1)

\* currentChunk.split(/\s+/): cut at every maximal whitespace run
RECURSIVE SplitAtWs(_, _, _)
SplitAtWs(s, from, i) ==
  IF i > Len(s) THEN << SubSeq(s, from, Len(s)) >>
  ELSE IF IsWs(s[i])
       THEN << SubSeq(s, from, i-1) >>
            \o SplitAtWs(s, WsRunEnd(s, i) + 1, WsRunEnd(s, i) + 1)
       ELSE SplitAtWs(s, from, i+1)

SplitWords(s) == SplitAtWs(s, 1, 1)

\* Array.prototype.join(' ')
RECURSIVE JoinSpace(_)
JoinSpace(ws) ==
  IF ws = <<>> THEN <<>>
  ELSE IF Len(ws) = 1 THEN ws[1]
  ELSE ws[1] \o <<" ">> \o JoinSpace(Tail(ws))

\* words.slice(-k): the last k elements; slice(-0) is slice(0), the whole array
SliceLast(ws, k) ==
  IF k = 0 \/ k >= Len(ws) THEN ws ELSE SubSeq(ws, Len(ws) - k + 1, Len(ws))

-----------------------------------------------------------------------------
(* splitIntoChunks (the same code in both builders).                       *)

\* the guard of the if in the loop
ExceedsChunk(cur, sentence, size) ==
  Len(cur) + Len(sentence) > size /\ Len(cur) > 0

\* words.slice(-Math.floor(overlap / 5))
OverlapWords(cur, ovl) == SliceLast(SplitWords(cur), ovl \div 5)

\* currentChunk = overlapWords.join(' ') + ' ' + sentence
SeedNextChunk(cur, sentence, ovl) ==
  JoinSpace(OverlapWords(cur, ovl)) \o <<" ">> \o sentence

\* currentChunk += (currentChunk ? ' ' : '') + sentence
AppendSentence(cur, sentence) ==
  cur \o (IF cur # <<>> THEN <<" ">> ELSE <<>>) \o sentence

\* a flush that forgets the buffer left after the loop
FlushFinalForgotten(cs, cur) == cs

\* a flush that tests the buffer without trimming it
FlushFinalUntrimmedTest(cs, cur) ==
  IF cur # <<>> THEN Append(cs, Trim(cur)) ELSE cs

\* if (currentChunk.trim()) chunks.push(currentChunk.trim())
FlushFinal(cs, cur) ==
  IF Trim(cur) # <<>> THEN Append(cs, Trim(cur)) ELSE cs

\* the whole function, as the loop below computes it
RECURSIVE SplitLoop(_, _, _, _, _)
SplitLoop(ss, cur, cs, size, ovl) ==
  IF ss = <<>> THEN FlushFinal(cs, cur)
  ELSE IF ExceedsChunk(cur, Head(ss), size)
       THEN SplitLoop(Tail(ss), SeedNextChunk(cur, Head(ss), ovl),
                      Append(cs, Trim(cur)), size, ovl)
       ELSE SplitLoop(Tail(ss), AppendSentence(cur, Head(ss)), cs, size, ovl)

SplitIntoChunks(text, size, ovl) ==
  SplitLoop(SplitSentences(text), <<>>, <<>>, size, ovl)

-----------------------------------------------------------------------------
(* Paths: a path is its sequence of segments; an absolute one starts "/".  *)

Cwd == <<"/", "site">>

IsAbsolute(p) == p # <<>> /\ p[1] = "/"

\* path.resolve(p)
PathResolve(p) == IF IsAbsolute(p) THEN p ELSE Cwd \o p

\* String.prototype.startsWith, on paths none of whose segments is a proper
\* prefix of a sibling's name
StartsWith(p, q) == Len(q) <= Len(p) /\ SubSeq(p, 1, Len(q)) = q

CommonLen(a, b) ==
  Max({n \in 0..Min({Len(a), Len(b)}) : SubSeq(a, 1, n) = SubSeq(b, 1, n)})

\* path.relative(from, to)
PathRelative(from, to) ==
  LET a == PathResolve(from)
      b == PathResolve(to)
      c == CommonLen(a, b)
  IN  [k \in 1..(Len(a) - c) |-> ".."] \o SubSeq(b, c + 1, Len(b))

\* path.basename(filePath, path.extname(filePath)), as text
BaseName(p) ==
  CASE p[Len(p)] = "a.md" -> <<"a">>
    [] p[Len(p)] = "b.md" -> <<"b">>

-----------------------------------------------------------------------------
(* The site: the content files a run can find, in the order readdirSync    *)
(* lists them, and the documents they can hold.  The bodies hold no        *)
(* markup, so of cleanMarkdownContent's replacements only the blank-line   *)
(* collapse and the trim change them.                                      *)

FileA == <<"/", "site", "docs", "a.md">>

FileB == <<"/", "site", "docs", "api", "b.md">>

\* a file of the blog directory that is no content file
FileLogo == <<"/", "site", "blog", "logo.png">>

Universe == << FileA, FileB, FileLogo >>

\* the values --docs and --blog are given in the model (the defaults are
\* ./docs and ./blog; the site has a blog directory when it has FileLogo)
Roots == { <<"docs">>, <<"docs", "api">>, <<"blog">> }

TitleLine ==
  << "t", "i", "t", "l", "e", ":", " ", "\"", "I", "n", "t", "r",
     "o", "\"" >>

TitleKey == << "t", "i", "t", "l", "e" >>

TitleIntro == << "I", "n", "t", "r", "o" >>

BodyIntro ==
  << "H", "e", "l", "l", "o", " ", "w", "o", "r", "l", "d", ".",
     " ", "T", "h", "i", "s", " ", "i", "s", " ", "a", " ", "t",
     "e", "s", "t", ".", "\n" >>

BodyGuide ==
  << "\n", "N", "o", "v", "a", " ", "a", "n", "s", "w", "e", "r",
     "s", " ", "q", "u", "e", "s", "t", "i", "o", "n", "s", " ",
     "a", "b", "o", "u", "t", " ", "y", "o", "u", "r", " ", "d",
     "o", "c", "s", ".", " ", "I", "t", " ", "c", "i", "t", "e",
     "s", " ", "e", "v", "e", "r", "y", " ", "s", "o", "u", "r",
     "c", "e", " ", "i", "t", " ", "u", "s", "e", "d", ".", "\n" >>

BodyOneLiner ==
  << "I", "n", "s", "t", "a", "l", "l", " ", "t", "h", "e", " ",
     "p", "l", "u", "g", "i", "n", " ", "w", "i", "t", "h", " ",
     "n", "p", "m", " ", "a", "n", "d", " ", "a", "d", "d", " ",
     "i", "t", " ", "t", "o", " ", "y", "o", "u", "r", " ", "s",
     "i", "t", "e", " ", "c", "o", "n", "f", "i", "g", "\n" >>

\* a file's text: "---\n" lines "\n---\n" body when hasFm, else body alone
DocNames == {"intro", "guide", "oneliner"}

Doc(name) ==
  CASE name = "intro"    -> [hasFm |-> TRUE,  lines |-> <<TitleLine>>, body |-> BodyIntro]
    [] name = "guide"    -> [hasFm |-> TRUE,  lines |-> <<TitleLine>>, body |-> BodyGuide]
    [] name = "oneliner" -> [hasFm |-> FALSE, lines |-> <<>>,          body |-> BodyOneLiner]

ContentTrees == UNION { [fs -> DocNames] : fs \in SUBSET {FileA, FileB} }

Trees == ContentTrees \cup { t @@ (FileLogo :> "image") : t \in ContentTrees }

\* /\.(md|mdx)$/i.test(entry.name)
IsMarkdownFile(f) == f[Len(f)] \in {"a.md", "b.md"}

\* tr has directory dir: a directory is there when a file is under it
DirExists(dir, tr) ==
  \E f \in DOMAIN tr :
    StartsWith(f, PathResolve(dir)) /\ Len(f) > Len(PathResolve(dir))

\* a guard that lets findMarkdownFiles go on to readdirSync in any case
ExistsSyncAlways(dir, tr) == TRUE

\* fs.existsSync(dir)
ExistsSync(dir, tr) == DirExists(dir, tr)

\* findMarkdownFiles(dir) when readdirSync does not throw: the content files
\* under dir, each as path.join(dir, ...)
FindMarkdownFiles(dir, tr) ==
  LET root  == PathResolve(dir)
      found == SelectSeq(Universe,
                 LAMBDA f : /\ f \in DOMAIN tr /\ IsMarkdownFile(f)
                            /\ StartsWith(f, root) /\ Len(f) > Len(root))
  IN  IF ~ExistsSync(dir, tr) THEN <<>>
      ELSE [k \in 1..Len(found) |-> dir \o SubSeq(found[k], Len(root) + 1, Len(found[k]))]

-----------------------------------------------------------------------------
(* parseFrontmatter, cleanMarkdownContent, processFile.                    *)

\* line.indexOf(c), counted from 1; 0 when c does not occur
IndexOf(s, c) ==
  IF \E k \in 1..Len(s) : s[k] = c THEN Min({k \in 1..Len(s) : s[k] = c}) ELSE 0

IsQuote(c) == c \in {"\"", "'"}

\* build-rag-index.js: the value loses a pair of enclosing quotes
StripQuotesKeyword(v) ==
  IF v # <<>> /\ ( (v[1] = "\"" /\ v[Len(v)] = "\"") \/ (v[1] = "'" /\ v[Len(v)] = "'") )
  THEN SubSeq(v, 2, Len(v) - 1)
  ELSE v

\* build-rag-index-embeddings.js: .replace(/^["']|["']$/g, '')
StripQuotesEmbeddings(v) ==
  LET a == IF v # <<>> /\ IsQuote(v[1]) THEN Tail(v) ELSE v
  IN  IF a # <<>> /\ IsQuote(a[Len(a)]) THEN SubSeq(a, 1, Len(a) - 1) ELSE a

\* if (colonIndex > 0), with indexOf counted from 0 there
HasEntry(line) == IndexOf(line, ":") > 1

EntryKey(line) == Trim(SubSeq(line, 1, IndexOf(line, ":") - 1))

EntryValue(line, m) ==
  LET v == Trim(SubSeq(line, IndexOf(line, ":") + 1, Len(line)))
  IN  IF m = "keyword" THEN StripQuotesKeyword(v) ELSE StripQuotesEmbeddings(v)

\* the lines that set metadata[key]; the last one wins
EntryLines(doc, key) ==
  IF doc.hasFm
  THEN {k \in 1..Len(doc.lines) : HasEntry(doc.lines[k]) /\ EntryKey(doc.lines[k]) = key}
  ELSE {}

\* metadata.title || path.basename(filePath, path.extname(filePath))
TitleOf(doc, filePath, m) ==
  LET ls == EntryLines(doc, TitleKey)
  IN  IF ls # {} /\ EntryValue(doc.lines[Max(ls)], m) # <<>>
      THEN EntryValue(doc.lines[Max(ls)], m)
      ELSE BaseName(filePath)

\* .replace(/\n{3,}/g, '\n\n')
RECURSIVE CollapseBlankLines(_)
CollapseBlankLines(s) ==
  IF Len(s) >= 3 /\ s[1] = "\n" /\ s[2] = "\n" /\ s[3] = "\n"
  THEN CollapseBlankLines(Tail(s))
  ELSE IF s = <<>> THEN <<>> ELSE <<Head(s)>> \o CollapseBlankLines(Tail(s))

CleanMarkdownContent(body) == Trim(CollapseBlankLines(body))

MinContentLength == 50

\* a threshold test that lets every document through
TooShortNever(cleaned) == FALSE

\* a threshold test that also turns away a content of exactly 50 characters
TooShortOffByOne(cleaned) == Len(cleaned) <= MinContentLength

\* if (!cleanedContent || cleanedContent.length < 50) return [];
TooShort(cleaned) == Len(cleaned) < MinContentLength

\* a digest that leaves the chunk index out
GenerateChunkIdOfPathOnly(filePath, chunkIndex) == <<filePath, 0>>

\* md5(`${filePath}-${chunkIndex}`).slice(0, 8): the digest is a function of
\* the digested text, which stands for it
GenerateChunkId(filePath, chunkIndex) == <<filePath, chunkIndex>>

\* a file name without its extension: .replace(/\.(md|mdx)$/i, '')
StripExt(name) ==
  CASE name = "a.md" -> "a"
    [] name = "b.md" -> "b"
    [] name = "index.md" -> "index"
    [] OTHER -> name

\* relativePath.replace(/\\/g, '/').replace(/\.(md|mdx)$/i, '').replace(/\/index$/, '')
Slug(relativePath) ==
  LET n == Len(relativePath)
      stripped == [relativePath EXCEPT ![n] = StripExt(relativePath[n])]
  IN  IF n > 1 /\ stripped[n] = "index" THEN SubSeq(stripped, 1, n - 1) ELSE stripped

\* processFile, given the text readFileSync returned; a keyword-mode record
\* has no embedding field ("none"), an embedding-mode one starts with null
ProcessFile(filePath, doc, cfg, baseDir, m) ==
  LET cleaned == CleanMarkdownContent(doc.body)
      pieces  == SplitIntoChunks(cleaned, cfg.chunkSize, cfg.chunkOverlap)
  IN  IF TooShort(cleaned) THEN <<>>
      ELSE [k \in 1..Len(pieces) |->
             [ id          |-> GenerateChunkId(filePath, k - 1),
               source      |-> PathRelative(baseDir, filePath),
               slug        |-> Slug(PathRelative(baseDir, filePath)),
               title       |-> TitleOf(doc, filePath, m),
               content     |-> pieces[k],
               chunkIndex  |-> k - 1,
               totalChunks |-> Len(pieces),
               embedding   |-> IF m = "keyword" THEN "none" ELSE "null" ]]

\* const baseDir = file.startsWith(path.resolve(config.docsDir)) ? ... : ...
BaseDirOf(file, cfg) ==
  IF StartsWith(file, PathResolve(cfg.docsDir)) THEN cfg.docsDir ELSE cfg.blogDir

\* the document readFileSync(filePath) returns
Read(filePath, tr) == Doc(tr[PathResolve(filePath)])

-----------------------------------------------------------------------------
(* main(): configuration, index assembly, the embedding batches.           *)

DefaultBatchSize == 5

\* process.env.AWS_REGION || 'us-east-1', AWS_REGION not being set
DefaultRegion == "us-east-1"

DefaultModel == "amazon.titan-embed-text-v2:0"

\* DEFAULT_CONFIG of either script
DefaultConfig(m) ==
  IF m = "keyword"
  THEN [docsDir |-> <<"docs">>, blogDir |-> <<"blog">>,
        chunkSize |-> 1000, chunkOverlap |-> 200]
  ELSE [docsDir |-> <<"docs">>, blogDir |-> <<"blog">>,
        chunkSize |-> 512, chunkOverlap |-> 100,
        batchSize |-> DefaultBatchSize, region |-> DefaultRegion,
        embeddingModel |-> DefaultModel]

\* the values --chunk-size is given in the model
ChunkSizeArgs == {40}

\* the values --region and --model are given in the model
RegionArgs == {"eu-west-1"}

ModelArgs == {"cohere.embed-english-v3"}

\* parseArgs: --docs, --blog and --chunk-size override the defaults; so do,
\* in the embedding builder, --region and --model (given here to runs over
\* the default roots)
Configs(m) ==
  { [DefaultConfig(m) EXCEPT !.docsDir = d, !.blogDir = b, !.chunkSize = s] :
      d \in Roots, b \in Roots,
      s \in {DefaultConfig(m).chunkSize} \cup ChunkSizeArgs }
  \cup
  (IF m = "keyword" THEN {}
   ELSE { [DefaultConfig(m) EXCEPT !.chunkSize = s, !.region = r, !.embeddingModel = e] :
            s \in {DefaultConfig(m).chunkSize} \cup ChunkSizeArgs,
            r \in RegionArgs, e \in ModelArgs })

\* the chunks the processing loop collects from files
RECURSIVE ChunksOfFiles(_, _, _, _)
ChunksOfFiles(files, cfg, tr, m) ==
  IF files = <<>> THEN <<>>
  ELSE ProcessFile(Head(files), Read(Head(files), tr), cfg,
                   BaseDirOf(Head(files), cfg), m)
       \o ChunksOfFiles(Tail(files), cfg, tr, m)

NoIndex == [version |-> "none"]

\* a filter that keeps every chunk
SuccessfulChunksUnfiltered(cs) == cs

\* chunks.filter(c => c.embedding !== null)
SuccessfulChunks(cs) == SelectSeq(cs, LAMBDA c : c.embedding # "null")

\* const index = { version, stats, chunks } (generatedAt left out; in
\* embedding mode embeddingModel and embeddingDimension too)
BuildIndex(m, all, docs, blog, cs, errs) ==
  IF m = "keyword"
  THEN [ version |-> "1.0",
         stats   |-> [ totalFiles  |-> Len(all),
                       totalChunks |-> Len(cs),
                       docsFiles   |-> Len(docs),
                       blogFiles   |-> Len(blog) ],
         chunks  |-> cs ]
  ELSE [ version |-> "2.0-embeddings",
         stats   |-> [ totalFiles       |-> Len(all),
                       totalChunks      |-> Len(cs),
                       successfulChunks |-> Len(SuccessfulChunks(cs)),
                       failedChunks     |-> Len(errs) ],
         chunks  |-> SuccessfulChunks(cs) ]

\* a test that lets a run without files go on
NoFilesFoundNever(all) == FALSE

\* if (allFiles.length === 0), if (!allFiles.length)
NoFilesFound(all) == all = <<>>

\* initBedrockClient: the handle is created once and then reused
InitBedrockClient(client, region) == IF client = "null" THEN region ELSE client

\* generateEmbedding: const client = initBedrockClient(DEFAULT_CONFIG.region)
ClientRegion(cfg) == DefaultRegion

\* generateEmbedding(chunk.content, config.embeddingModel): modelId: model
RequestModel(cfg) == cfg.embeddingModel

\* chunks.slice(i, i + batchSize), as positions 1..n of chunks
BatchOf(start, n, size) == (start + 1)..Min({start + size, n})

\* a delay after every batch, the last one too
NeedsDelayAlways(start, n, size) == TRUE

\* if (i + config.batchSize < chunks.length) await sleep(config.delayMs)
NeedsDelay(start, n, size) == start + size < n

\* an assignment that lands on the first chunk of the array
SetEmbeddingOfFirst(cs, k, v) == [cs EXCEPT ![1].embedding = v]

\* an assignment that lands on the first chunk still waiting for its answer:
\* the answers are handed out in the order of their arrival
SetEmbeddingInArrivalOrder(cs, k, v) ==
  [cs EXCEPT ![Min({j \in DOMAIN req : req[j] = "pending"})].embedding = v]

\* chunk.embedding = await generateEmbedding(...)
SetEmbedding(cs, k, v) == [cs EXCEPT ![k].embedding = v]

ErrMessage == "ThrottlingException"

\* a catch block that records nothing
RecordErrorNot(errs, chunk) == errs

\* errors.push({ id: chunk.id, error: err.message })
RecordError(errs, chunk) == Append(errs, [id |-> chunk.id, error |-> ErrMessage])

\* the status the process ends with after main() rejected:
\* main().catch(console.error) returns, and node exits with 0;
\* main().catch(err => { console.error(...); process.exit(1); })
CatchExitCode(m) == IF m = "keyword" THEN 0 ELSE 1

-----------------------------------------------------------------------------
(* SpecChunk: splitIntoChunks run on every normalized prose up to MaxLen.  *)

Alphabet == {"a", ".", " "}

RECURSIVE StringsUpTo(_)
StringsUpTo(n) ==
  IF n = 0 THEN { <<>> }
  ELSE LET shorter == StringsUpTo(n - 1)
       IN  shorter \cup { Append(s, c) : s \in {t \in shorter : Len(t) = n - 1},
                                         c \in Alphabet }

\* processFile passes cleanMarkdownContent's result, which ends in .trim()
Prose == { s \in StringsUpTo(MaxLen) : Trim(s) = s }

\* chunkOverlap is 200 (keyword mode) or 100 (embedding mode); the smaller
\* budgets reach the branches of slice() that those never reach on short text
Overlaps == {0, 5, 10, 100, 200}

\* the variables of a single call, while none is made
NoReturn == [done |-> FALSE]

Returned(v) == [done |-> TRUE, value |-> v]

NoRequest == [stage |-> "none"]

\* the variables of the chat widget, while none is mounted
WidgetIdle ==
  /\ messages = <<>> /\ input = <<>> /\ isLoading = FALSE /\ request = NoRequest
  /\ enableRag = TRUE /\ inFlight = 0 /\ handleSendCalls = <<>>

CallIdle == call = <<>> /\ ret = NoReturn /\ WidgetIdle

\* the variables of a builder's run, while none runs
BuildIdle ==
  /\ mode = "none" /\ tree = <<>> /\ config = <<>>
  /\ outDir = FALSE /\ artifact = "absent" /\ written = NoIndex
  /\ before = [outDir |-> FALSE, artifact |-> "absent"]
  /\ pc = "idle"
  /\ docsFiles = <<>> /\ blogFiles = <<>> /\ allFiles = <<>>
  /\ processedFiles = 0 /\ chunks = <<>>
  /\ batchI = 0 /\ req = <<>> /\ errors = <<>> /\ processed = 0
  /\ bedrockClient = "null" /\ delays = 0 /\ modelIds = {}
  /\ fatal = "none" /\ printed = FALSE /\ exitCode = 0

InitChunk ==
  /\ BuildIdle
  /\ CallIdle
  /\ content \in Prose
  /\ chunkSize \in 1..MaxSize
  /\ overlap \in Overlaps
  /\ sentences = SplitSentences(content)
  /\ currentChunk = <<>>
  /\ splitChunks = <<>>
  /\ cpc = "loop"

\* one iteration of for (const sentence of sentences), closing a chunk
CloseChunk ==
  /\ cpc = "loop" /\ sentences # <<>>
  /\ ExceedsChunk(currentChunk, Head(sentences), chunkSize)
  /\ splitChunks' = Append(splitChunks, Trim(currentChunk))
  /\ currentChunk' = SeedNextChunk(currentChunk, Head(sentences), overlap)
  /\ sentences' = Tail(sentences)
  /\ UNCHANGED <<content, chunkSize, overlap, cpc, bvars, fvars, wvars>>

\* one iteration of the loop, extending the buffer
ExtendChunk ==
  /\ cpc = "loop" /\ sentences # <<>>
  /\ ~ExceedsChunk(currentChunk, Head(sentences), chunkSize)
  /\ currentChunk' = AppendSentence(currentChunk, Head(sentences))
  /\ sentences' = Tail(sentences)
  /\ UNCHANGED <<content, chunkSize, overlap, splitChunks, cpc, bvars, fvars, wvars>>

\* after the loop: the final flush and the return
ReturnChunks ==
  /\ cpc = "loop" /\ sentences = <<>>
  /\ splitChunks' = FlushFinal(splitChunks, currentChunk)
  /\ cpc' = "done"
  /\ UNCHANGED <<content, chunkSize, overlap, sentences, currentChunk, bvars, fvars, wvars>>

NextChunk == CloseChunk \/ ExtendChunk \/ ReturnChunks

SpecChunk == InitChunk /\ [][NextChunk]_vars

-----------------------------------------------------------------------------
(* Spec: one run of main() of either builder.                              *)

ChunkIdle ==
  /\ content = <<>> /\ chunkSize = 0 /\ overlap = 0
  /\ sentences = <<>> /\ currentChunk = <<>> /\ splitChunks = <<>>
  /\ cpc = "idle"

Init ==
  /\ ChunkIdle
  /\ CallIdle
  /\ mode \in {"keyword", "embeddings"}
  /\ tree \in Trees
  /\ config \in Configs(mode)
  \* the blog directory's own file is put only where the blog root is that
  \* directory: no other run ever looks into it
  /\ FileLogo \in DOMAIN tree => config.blogDir = <<"blog">>
  /\ Len(ChunksOfFiles(FindMarkdownFiles(config.docsDir, tree)
                       \o FindMarkdownFiles(config.blogDir, tree),
                       config, tree, mode)) <= MaxChunks
  /\ before \in { [outDir |-> FALSE, artifact |-> "absent"],
                  [outDir |-> TRUE,  artifact |-> "absent"],
                  [outDir |-> TRUE,  artifact |-> "old"] }
  /\ outDir = before.outDir
  /\ artifact = before.artifact
  /\ written = NoIndex
  /\ pc = "start"
  /\ docsFiles = <<>> /\ blogFiles = <<>> /\ allFiles = <<>>
  /\ processedFiles = 0 /\ chunks = <<>>
  /\ batchI = 0 /\ req = <<>> /\ errors = <<>> /\ processed = 0
  /\ bedrockClient = "null" /\ delays = 0 /\ modelIds = {}
  /\ fatal = "none" /\ printed = FALSE /\ exitCode = 0

\* an exception leaves main(): the promise rejects and the script's
\* top-level catch handler runs
Abort(cause) ==
  /\ fatal' = cause
  /\ printed' = TRUE
  /\ exitCode' = CatchExitCode(mode)
  /\ pc' = "aborted"

\* findMarkdownFiles twice; no file at all: process.exit(1)
FindFiles ==
  /\ pc = "start"
  /\ \A d \in {config.docsDir, config.blogDir} : ExistsSync(d, tree) => DirExists(d, tree)
  /\ docsFiles' = FindMarkdownFiles(config.docsDir, tree)
  /\ blogFiles' = FindMarkdownFiles(config.blogDir, tree)
  /\ allFiles' = docsFiles' \o blogFiles'
  /\ IF NoFilesFound(allFiles')
     THEN pc' = "nofiles" /\ exitCode' = 1
     ELSE pc' = "process" /\ exitCode' = exitCode
  /\ UNCHANGED <<cvars, fvars, wvars, mode, tree, config, before, processedFiles, chunks,
                 fsvars, embvars, fatal, printed>>

\* readdirSync throws in findMarkdownFiles: it may for a directory that is
\* there (and cannot be read), it does for one that is not, which the
\* existsSync test keeps from it
FindFilesFails ==
  /\ pc = "start"
  /\ \/ /\ ExistsSync(config.docsDir, tree)
        /\ Abort("readdir-docs")
     \/ /\ ExistsSync(config.docsDir, tree) => DirExists(config.docsDir, tree)
        /\ ExistsSync(config.blogDir, tree)
        /\ Abort("readdir-blog")
  /\ UNCHANGED <<cvars, fvars, wvars, mode, tree, config, before, docsFiles, blogFiles,
                 allFiles, processedFiles, chunks, fsvars, embvars>>

\* one iteration of for (const file of allFiles)
ProcessNextFile ==
  /\ pc = "process" /\ processedFiles < Len(allFiles)
  /\ LET file == allFiles[processedFiles + 1]
     IN  chunks' = chunks \o ProcessFile(file, Read(file, tree), config,
                                         BaseDirOf(file, config), mode)
  /\ processedFiles' = processedFiles + 1
  /\ UNCHANGED <<cvars, fvars, wvars, mode, tree, config, before, pc, docsFiles, blogFiles,
                 allFiles, fsvars, embvars, endvars>>

\* readFileSync throws in processFile
ReadFails ==
  /\ pc = "process" /\ processedFiles < Len(allFiles)
  /\ Abort("read")
  /\ UNCHANGED <<cvars, fvars, wvars, mode, tree, config, before, docsFiles, blogFiles,
                 allFiles, processedFiles, chunks, fsvars, embvars>>

\* the loop over the files ends: keyword mode goes on to the index, embedding
\* mode to the batches
FilesProcessed ==
  /\ pc = "process" /\ processedFiles = Len(allFiles)
  /\ pc' = IF mode = "keyword" THEN "mkdir" ELSE "batch"
  /\ req' = IF mode = "keyword" THEN req ELSE [k \in 1..Len(chunks) |-> "unsent"]
  /\ UNCHANGED <<cvars, fvars, wvars, mode, tree, config, before, docsFiles, blogFiles,
                 allFiles, processedFiles, chunks, fsvars, batchI, errors,
                 processed, bedrockClient, delays, modelIds, endvars>>

\* batch.map(async chunk => ...): every request of the batch is sent before
\* main awaits Promise.all; generateEmbedding gets its client from
\* initBedrockClient(DEFAULT_CONFIG.region)
IssueBatch ==
  /\ pc = "batch" /\ batchI < Len(chunks)
  /\ req' = [k \in DOMAIN req |->
               IF k \in BatchOf(batchI, Len(chunks), config.batchSize)
               THEN "pending" ELSE req[k]]
  /\ bedrockClient' = InitBedrockClient(bedrockClient, ClientRegion(config))
  /\ modelIds' = modelIds \cup {RequestModel(config)}
  /\ pc' = "await"
  /\ UNCHANGED <<cvars, fvars, wvars, mode, tree, config, before, docsFiles, blogFiles,
                 allFiles, processedFiles, chunks, fsvars, batchI, errors,
                 processed, delays, endvars>>

\* the for loop's condition i < chunks.length fails
BatchesDone ==
  /\ pc = "batch" /\ batchI >= Len(chunks)
  /\ pc' = "mkdir"
  /\ UNCHANGED <<cvars, fvars, wvars, mode, tree, config, before, docsFiles, blogFiles,
                 allFiles, processedFiles, chunks, fsvars, embvars, endvars>>

\* a request is answered: result.embedding is a vector, or is undefined
EmbedFulfilled(k, v) ==
  /\ pc = "await" /\ req[k] = "pending"
  /\ chunks' = SetEmbedding(chunks, k, v)
  /\ req' = [req EXCEPT ![k] = IF v = "vector" THEN "fulfilled" ELSE "novector"]
  /\ UNCHANGED <<cvars, fvars, wvars, mode, tree, config, before, pc, docsFiles, blogFiles,
                 allFiles, processedFiles, fsvars, batchI, errors, processed,
                 bedrockClient, delays, modelIds, endvars>>

\* a request throws (client.send rejects, or the body does not parse): the
\* catch block of the chunk's async function runs
EmbedRejected(k) ==
  /\ pc = "await" /\ req[k] = "pending"
  /\ errors' = RecordError(errors, chunks[k])
  /\ req' = [req EXCEPT ![k] = "rejected"]
  /\ UNCHANGED <<cvars, fvars, wvars, mode, tree, config, before, pc, docsFiles, blogFiles,
                 allFiles, processedFiles, chunks, fsvars, batchI, processed,
                 bedrockClient, delays, modelIds, endvars>>

\* Promise.all resolves; processed += batch.length; the delay, or the next
\* iteration at once
BatchSettled ==
  /\ pc = "await"
  /\ \A k \in BatchOf(batchI, Len(chunks), config.batchSize) : req[k] # "pending"
  /\ processed' = processed + Cardinality(BatchOf(batchI, Len(chunks), config.batchSize))
  /\ IF NeedsDelay(batchI, Len(chunks), config.batchSize)
     THEN pc' = "sleep" /\ batchI' = batchI
     ELSE pc' = "batch" /\ batchI' = batchI + config.batchSize
  /\ UNCHANGED <<cvars, fvars, wvars, mode, tree, config, before, docsFiles, blogFiles,
                 allFiles, processedFiles, chunks, fsvars, req, errors,
                 bedrockClient, delays, modelIds, endvars>>

\* sleep's timer fires; i += config.batchSize
DelayElapsed ==
  /\ pc = "sleep"
  /\ delays' = delays + 1
  /\ batchI' = batchI + config.batchSize
  /\ pc' = "batch"
  /\ UNCHANGED <<cvars, fvars, wvars, mode, tree, config, before, docsFiles, blogFiles,
                 allFiles, processedFiles, chunks, fsvars, req, errors,
                 processed, bedrockClient, modelIds, endvars>>

\* if (!fs.existsSync(outputDir)): the directory is there
OutputDirExists ==
  /\ pc = "mkdir" /\ outDir
  /\ pc' = "write"
  /\ UNCHANGED <<cvars, fvars, wvars, mode, tree, config, before, docsFiles, blogFiles,
                 allFiles, processedFiles, chunks, fsvars, embvars, endvars>>

\* fs.mkdirSync(outputDir, { recursive: true })
MakeOutputDir ==
  /\ pc = "mkdir" /\ ~outDir
  /\ outDir' = TRUE
  /\ pc' = "write"
  /\ UNCHANGED <<cvars, fvars, wvars, mode, tree, config, before, docsFiles, blogFiles,
                 allFiles, processedFiles, chunks, artifact, written, embvars,
                 endvars>>

\* mkdirSync throws
MakeOutputDirFails ==
  /\ pc = "mkdir" /\ ~outDir
  /\ Abort("mkdir")
  /\ UNCHANGED <<cvars, fvars, wvars, mode, tree, config, before, docsFiles, blogFiles,
                 allFiles, processedFiles, chunks, fsvars, embvars>>

\* fs.writeFileSync(config.outputFile, JSON.stringify(index)), the statSync
\* and the closing logs; main() resolves and the process ends
WriteIndex ==
  /\ pc = "write"
  /\ artifact' = "written"
  /\ written' = BuildIndex(mode, allFiles, docsFiles, blogFiles, chunks, errors)
  /\ pc' = "completed"
  /\ exitCode' = 0
  /\ UNCHANGED <<cvars, fvars, wvars, mode, tree, config, before, docsFiles, blogFiles,
                 allFiles, processedFiles, chunks, outDir, embvars, fatal,
                 printed>>

\* writeFileSync throws before the file is opened for writing
WriteFailsAtOpen ==
  /\ pc = "write"
  /\ Abort("write")
  /\ UNCHANGED <<cvars, fvars, wvars, mode, tree, config, before, docsFiles, blogFiles,
                 allFiles, processedFiles, chunks, fsvars, embvars>>

\* writeFileSync throws after the file was truncated and partly written
WriteFailsMidway ==
  /\ pc = "write"
  /\ artifact' = "partial"
  /\ Abort("write")
  /\ UNCHANGED <<cvars, fvars, wvars, mode, tree, config, before, docsFiles, blogFiles,
                 allFiles, processedFiles, chunks, outDir, written, embvars>>

Settle ==
  \E k \in DOMAIN req :
    \/ \E v \in {"vector", "undefined"} : EmbedFulfilled(k, v)
    \/ EmbedRejected(k)

Next ==
  \/ FindFiles
  \/ FindFilesFails
  \/ ProcessNextFile
  \/ ReadFails
  \/ FilesProcessed
  \/ IssueBatch
  \/ BatchesDone
  \/ Settle
  \/ BatchSettled
  \/ DelayElapsed
  \/ OutputDirExists
  \/ MakeOutputDir
  \/ MakeOutputDirFails
  \/ WriteIndex
  \/ WriteFailsAtOpen
  \/ WriteFailsMidway

Spec == Init /\ [][Next]_vars

\* the embedding builder's runs with --chunk-size 40 over the docs tree, the
\* blog root inside it
InitFair ==
  /\ Init
  /\ mode = "embeddings"
  /\ config.docsDir = <<"docs">> /\ config.blogDir = <<"docs", "api">>
  /\ config.chunkSize \in ChunkSizeArgs

\* the steps of the batch loop, and those of the output stage
BatchStep == IssueBatch \/ BatchesDone \/ Settle \/ BatchSettled \/ DelayElapsed

OutputStep ==
  \/ OutputDirExists \/ MakeOutputDir \/ MakeOutputDirFails
  \/ WriteIndex \/ WriteFailsAtOpen \/ WriteFailsMidway

\* from the batch loop on, every step of a run is one the node event loop
\* takes once it can: a synchronous stretch of main, a request's answer (the
\* client settles every send), sleep's timer
FairSpec == InitFair /\ [][Next]_vars /\ WF_vars(BatchStep) /\ WF_vars(OutputStep)

-----------------------------------------------------------------------------
(* Claims about splitIntoChunks, checked under SpecChunk.                  *)

IsSubstring(sub, s) ==
  \E i \in 0..(Len(s) - Len(sub)) : SubSeq(s, i + 1, i + Len(sub)) = sub

\* the sentence units of a prose: the non-empty pieces of the split
SentenceUnits(text) == SelectSeq(SplitSentences(text), LAMBDA u : u # <<>>)

\* every unit of us is a substring of a chunk of cs at or after position j,
\* the positions never going back
RECURSIVE CoveredInOrder(_, _, _)
CoveredInOrder(us, cs, j) ==
  IF us = <<>> THEN TRUE
  ELSE LET hits == {k \in j..Len(cs) : IsSubstring(Head(us), cs[k])}
       IN  hits # {} /\ CoveredInOrder(Tail(us), cs, Min(hits))

\* C1: every returned chunk is at most chunkSize long, unless it is exactly
\* one sentence unit that is itself longer than chunkSize.
C1_ChunkWithinSize ==
  cpc = "done" =>
    \A k \in 1..Len(splitChunks) :
      \/ Len(splitChunks[k]) <= chunkSize
      \/ \E u \in 1..Len(SentenceUnits(content)) :
           /\ splitChunks[k] = SentenceUnits(content)[u]
           /\ Len(SentenceUnits(content)[u]) > chunkSize

\* C2: every sentence unit of the prose is found whole in a returned chunk,
\* and the units are met in their original order along the chunk sequence.
C2_SentencesCoveredInOrder ==
  cpc = "done" => CoveredInOrder(SentenceUnits(content), splitChunks, 1)

\* C2's case: a prose of three sentences that was cut into several chunks
C2_Witness ==
  /\ cpc = "done"
  /\ Len(SentenceUnits(content)) >= 3
  /\ Len(splitChunks) >= 2

-----------------------------------------------------------------------------
(* Claims about a builder's run, checked under Spec and FairSpec.          *)

\* the run is over a site whose only content file is docs/a.md, holding
\* document d, found once, with chunk size 1000, by the keyword builder
SingleFileBuild(d) ==
  /\ mode = "keyword"
  /\ tree = (FileA :> d)
  /\ config.docsDir = <<"docs">> /\ config.blogDir = <<"blog">>
  /\ config.chunkSize = 1000

OneChunkOf(idx, title, body) ==
  /\ Len(idx.chunks) = 1
  /\ idx.chunks[1].title = title
  /\ idx.chunks[1].content = Trim(body)
  /\ idx.chunks[1].chunkIndex = 0
  /\ idx.chunks[1].totalChunks = 1

C4_ChunkIdsUnique ==
  pc = "completed" =>
    \A j, k \in 1..Len(written.chunks) :
      j # k => written.chunks[j].id # written.chunks[k].id

Rejected == {k \in DOMAIN req : req[k] = "rejected"}

Pending == {k \in DOMAIN req : req[k] = "pending"}

\* C5: with N chunks produced and M requests failed, the index holds N - M
\* chunk records and its stats say failedChunks = M, successfulChunks = N - M,
\* totalChunks = N.
C5_FailedChunksLeftOut ==
  (mode = "embeddings" /\ pc = "completed") =>
    /\ Len(written.chunks) = Len(chunks) - Cardinality(Rejected)
    /\ written.stats.failedChunks = Cardinality(Rejected)
    /\ written.stats.successfulChunks = Len(chunks) - Cardinality(Rejected)
    /\ written.stats.totalChunks = Len(chunks)

\* C5's case: a completed embedding run in which some requests failed and
\* some did not
C5_Witness ==
  /\ mode = "embeddings" /\ pc = "completed"
  /\ Cardinality(Rejected) >= 2
  /\ Cardinality(Rejected) < Len(chunks)

InBatches == mode = "embeddings" /\ pc \in {"batch", "await", "sleep"}

\* the records of errors are, id for id, those of the chunks whose request
\* failed, each with the error's message
ErrorsMatchRejected ==
  /\ Len(errors) = Cardinality(Rejected)
  /\ \A e \in 1..Len(errors) : errors[e].error = ErrMessage
  /\ \A c \in DOMAIN req :
       Cardinality({e \in 1..Len(errors) : errors[e].id = chunks[c].id})
         = Cardinality({k \in Rejected : chunks[k].id = chunks[c].id})

\* C6: whatever requests fail, the run is not aborted by them: from the
\* batch loop it reaches the output stage with every batch processed, and it
\* ends, completed unless mkdirSync or writeFileSync throws; every failed
\* chunk has left exactly one error record with its id and the message.
C6_EmbedFailuresDoNotAbort ==
  /\ [](mode = "embeddings" => ErrorsMatchRejected)
  /\ []((mode = "embeddings" /\ pc \in {"mkdir", "write", "completed"})
          => /\ \A k \in DOMAIN req : req[k] \in {"fulfilled", "novector", "rejected"}
             /\ processed = Len(chunks))
  /\ []((pc = "aborted" /\ Rejected # {}) => fatal \in {"mkdir", "write"})
  /\ (InBatches ~> pc = "mkdir")
  /\ (InBatches ~> pc \in {"completed", "aborted"})

\* C6's case: a run completed although every request of its two batches failed
C6_Witness ==
  /\ mode = "embeddings" /\ pc = "completed"
  /\ Len(chunks) > config.batchSize
  /\ Rejected = DOMAIN req

\* the batch of the chunk at position k, counted from 0
BatchIndex(k) == (k - 1) \div config.batchSize

NumBatches == (Len(chunks) + config.batchSize - 1) \div config.batchSize

\* C7: at most batchSize requests are in flight; a request of a batch is sent
\* only when every request of the batches before has settled and the delay
\* after each of them has elapsed; no delay follows the last batch.
C7_BatchesSequentialAndThrottled ==
  (mode = "embeddings" /\ req # <<>>) =>
    /\ Cardinality(Pending) <= config.batchSize
    /\ \A k \in DOMAIN req :
         req[k] # "unsent" =>
           /\ delays >= BatchIndex(k)
           /\ \A j \in DOMAIN req :
                BatchIndex(j) < BatchIndex(k) => req[j] \notin {"unsent", "pending"}
    /\ delays <= (IF NumBatches = 0 THEN 0 ELSE NumBatches - 1)
    /\ \A k \in DOMAIN req : req[k] = "unsent" => delays <= BatchIndex(k)

\* C7's case: a run of two batches has completed, one delay between them
C7_Witness ==
  /\ mode = "embeddings" /\ pc = "completed"
  /\ NumBatches = 2
  /\ delays = 1

\* the step settles the request of the chunk at position k
Settles(k) == k \in DOMAIN req /\ req[k] = "pending" /\ req'[k] # "pending"

\* C8 as stated: a request writes only the embedding slot of its own chunk;
\* nothing else is written by it, so nothing is written by two requests.
C8_RequestWritesOwnSlotOnly ==
  [][\A k \in DOMAIN req :
       Settles(k) =>
         /\ \A j \in DOMAIN req : j # k => chunks'[j] = chunks[j]
         /\ errors' = errors
         /\ bedrockClient' = bedrockClient]_vars

\* C8 amended: of the chunk objects a request writes only its own, and there
\* only the embedding slot; a failing request also appends one record, with
\* its chunk's id, to the errors array that all requests share; the client
\* handle is written when the requests are sent, not when they settle.
C8_RequestWritesOwnSlotAndErrors ==
  [][\A k \in DOMAIN req :
       Settles(k) =>
         /\ \A j \in DOMAIN req : j # k => chunks'[j] = chunks[j]
         /\ chunks' = [chunks EXCEPT ![k].embedding = chunks'[k].embedding]
         /\ bedrockClient' = bedrockClient
         /\ IF req'[k] = "rejected"
            THEN /\ errors' = Append(errors, [id |-> chunks[k].id, error |-> ErrMessage])
                 /\ chunks' = chunks
            ELSE errors' = errors]_vars

\* C8's case: two requests of one batch have both written to errors, while a
\* third one of that batch has written its slot
C8_Witness ==
  /\ mode = "embeddings" /\ pc = "await"
  /\ \E j, k, l \in DOMAIN req :
       /\ j # k
       /\ BatchIndex(j) = BatchIndex(k) /\ BatchIndex(k) = BatchIndex(l)
       /\ l > 1
       /\ req[j] = "rejected" /\ req[k] = "rejected" /\ req[l] = "fulfilled"
       /\ Pending # {}

\* C9: a run completes with the whole artifact written, or aborts leaving
\* the output directory and the artifact as they were before the run.
C9_CompleteOrUntouched ==
  /\ pc = "completed" => artifact = "written"
  /\ pc = "aborted" => (outDir = before.outDir /\ artifact = before.artifact)

\* C10: a run aborted by an exception has printed the error and ends with a
\* non-zero exit status.
C10_AbortExitsNonZero ==
  pc = "aborted" => (printed /\ exitCode # 0)


-----------------------------------------------------------------------------
(* extractKeywords (keyword builder).                                      *)

UpperCase ==
  << "A", "B", "C", "D", "E", "F", "G", "H", "I", "J", "K", "L", "M",
     "N", "O", "P", "Q", "R", "S", "T", "U", "V", "W", "X", "Y", "Z" >>

LowerCase ==
  << "a", "b", "c", "d", "e", "f", "g", "h", "i", "j", "k", "l", "m",
     "n", "o", "p", "q", "r", "s", "t", "u", "v", "w", "x", "y", "z" >>

Digits == << "0", "1", "2", "3", "4", "5", "6", "7", "8", "9" >>

Range(f) == { f[x] : x \in DOMAIN f }

\* String.prototype.toLowerCase, character by character
ToLowerCase(s) ==
  [ i \in 1..Len(s) |->
      IF s[i] \in Range(UpperCase)
      THEN LowerCase[CHOOSE j \in 1..26 : UpperCase[j] = s[i]]
      ELSE s[i] ]

\* .replace(/[^a-z0-9\s]/g, '')
IsKeptChar(c) == c \in Range(LowerCase) \/ c \in Range(Digits) \/ IsWs(c)

StripNonAlnum(s) == SelectSeq(s, IsKeptChar)

stopWords ==
  { <<"t", "h", "e">>, <<"a">>, <<"a", "n">>, <<"a", "n", "d">>,
    <<"o", "r">>, <<"b", "u", "t">>, <<"i", "n">>, <<"o", "n">>,
    <<"a", "t">>, <<"t", "o">>, <<"f", "o", "r">>, <<"o", "f">>,
    <<"w", "i", "t", "h">>, <<"b", "y">>, <<"f", "r", "o", "m">>,
    <<"a", "s">>, <<"i", "s">>, <<"w", "a", "s">>, <<"a", "r", "e">>,
    <<"w", "e", "r", "e">>, <<"b", "e", "e", "n">>, <<"b", "e">>,
    <<"h", "a", "v", "e">>, <<"h", "a", "s">>, <<"h", "a", "d">>,
    <<"d", "o">>, <<"d", "o", "e", "s">>, <<"d", "i", "d">>,
    <<"w", "i", "l", "l">>, <<"w", "o", "u", "l", "d">>,
    <<"c", "o", "u", "l", "d">>, <<"s", "h", "o", "u", "l", "d">>,
    <<"m", "a", "y">>, <<"m", "i", "g", "h", "t">>,
    <<"m", "u", "s", "t">>, <<"s", "h", "a", "l", "l">>,
    <<"c", "a", "n">>, <<"t", "h", "i", "s">>, <<"t", "h", "a", "t">>,
    <<"t", "h", "e", "s", "e">>, <<"t", "h", "o", "s", "e">>, <<"i">>,
    <<"y", "o", "u">>, <<"h", "e">>, <<"s", "h", "e">>, <<"i", "t">>,
    <<"w", "e">>, <<"t", "h", "e", "y">>, <<"w", "h", "a", "t">>,
    <<"w", "h", "i", "c", "h">>, <<"w", "h", "o">>,
    <<"w", "h", "e", "n">>, <<"w", "h", "e", "r", "e">>,
    <<"w", "h", "y">>, <<"h", "o", "w">>, <<"a", "l", "l">>,
    <<"e", "a", "c", "h">>, <<"e", "v", "e", "r", "y">>,
    <<"b", "o", "t", "h">>, <<"f", "e", "w">>, <<"m", "o", "r", "e">>,
    <<"m", "o", "s", "t">>, <<"o", "t", "h", "e", "r">>,
    <<"s", "o", "m", "e">>, <<"s", "u", "c", "h">>, <<"n", "o">>,
    <<"n", "o", "t">>, <<"o", "n", "l", "y">>, <<"o", "w", "n">>,
    <<"s", "a", "m", "e">>, <<"s", "o">>, <<"t", "h", "a", "n">>,
    <<"t", "o", "o">>, <<"v", "e", "r", "y">>, <<"j", "u", "s", "t">>,
    <<"a", "l", "s", "o">>, <<"n", "o", "w">> }

\* the filter's test, with the stop words forgotten
KeepsWordAnyLong(word) == Len(word) > 2

\* word => word.length > 2 && !stopWords.has(word)
KeepsWord(word) == Len(word) > 2 /\ word \notin stopWords

\* const words = content.toLowerCase().replace(...).split(/\s+/).filter(...)
KeywordWords(text) ==
  SelectSeq(SplitWords(StripNonAlnum(ToLowerCase(text))), KeepsWord)

\* frequency[word] once the counting loop has run
Frequency(words, word) == Cardinality({i \in 1..Len(words) : words[i] = word})

\* the position at which the counting loop created the property word
FirstIndex(words, word) == Min({i \in 1..Len(words) : words[i] = word})

DigitValue(c) == (CHOOSE j \in 1..10 : Digits[j] = c) - 1

RECURSIVE NumericValue(_)
NumericValue(w) ==
  IF w = <<>> THEN 0
  ELSE 10 * NumericValue(SubSeq(w, 1, Len(w) - 1)) + DigitValue(w[Len(w)])

\* a property name that is an array index: the canonical decimal form of an
\* integer below 2^32 - 1; the names of ten digits, whose value is beyond
\* the model checker's integers, are left to the other keys here (no text of
\* SpecKeywords has a token that long)
IsArrayIndex(w) ==
  /\ w # <<>>
  /\ \A i \in 1..Len(w) : w[i] \in Range(Digits)
  /\ (Len(w) = 1 \/ w[1] # "0")
  /\ Len(w) <= 9

\* the array-index keys of S ascending by value
RECURSIVE AscendingIndexKeys(_)
AscendingIndexKeys(S) ==
  IF S = {} THEN <<>>
  ELSE LET m == CHOOSE x \in S : \A y \in S : NumericValue(x) <= NumericValue(y)
       IN  <<m>> \o AscendingIndexKeys(S \ {m})

\* the other keys in the order in which the counting loop created them
RECURSIVE CreationOrderKeys(_, _)
CreationOrderKeys(words, i) ==
  IF i > Len(words) THEN <<>>
  ELSE (IF ~IsArrayIndex(words[i]) /\ FirstIndex(words, words[i]) = i
        THEN << words[i] >> ELSE <<>>)
       \o CreationOrderKeys(words, i + 1)

\* the own property keys of frequency in the order Object.entries visits
\* them: array-index keys ascending by value, then the other keys in the
\* order of their creation
OwnKeys(words) ==
  AscendingIndexKeys({w \in Range(words) : IsArrayIndex(w)})
    \o CreationOrderKeys(words, 1)

\* Object.entries(frequency)
Entries(words) ==
  [ i \in 1..Len(OwnKeys(words)) |->
      << OwnKeys(words)[i], Frequency(words, OwnKeys(words)[i]) >> ]

\* one insertion of the stable sort: e goes behind every entry that the
\* comparator (a, b) => b[1] - a[1] does not put behind it
InsertByCount(sorted, e) ==
  LET ahead == {i \in 1..Len(sorted) : sorted[i][2] >= e[2]}
      at == IF ahead = {} THEN 0 ELSE Max(ahead)
  IN  SubSeq(sorted, 1, at) \o <<e>> \o SubSeq(sorted, at + 1, Len(sorted))

\* .sort((a, b) => b[1] - a[1]), Array.prototype.sort being stable
RECURSIVE SortByCount(_)
SortByCount(es) ==
  IF es = <<>> THEN <<>>
  ELSE InsertByCount(SortByCount(SubSeq(es, 1, Len(es) - 1)), es[Len(es)])

\* .slice(0, maxKeywords)
TopSlice(es, n) == SubSeq(es, 1, Min({n, Len(es)}))

DefaultMaxKeywords == 10

ExtractKeywords(text, maxKeywords) ==
  LET top == TopSlice(SortByCount(Entries(KeywordWords(text))), maxKeywords)
  IN  [ i \in 1..Len(top) |-> top[i][1] ]


-----------------------------------------------------------------------------
(* SpecKeywords: extractKeywords called on texts of up to MaxWords words.  *)

MaxWords == 3     \* most words of a text given to extractKeywords

\* the words texts are made of: Nova, nova., docs, the, S3, 200, 100, 007
RawWords ==
  { << "N", "o", "v", "a" >>, << "n", "o", "v", "a", "." >>,
    << "d", "o", "c", "s" >>, << "t", "h", "e" >>,
    << "S", "3" >>, << "2", "0", "0" >>,
    << "1", "0", "0" >>, << "0", "0", "7" >> }

RECURSIVE WordSeqsUpTo(_)
WordSeqsUpTo(n) ==
  IF n = 0 THEN { <<>> }
  ELSE LET shorter == WordSeqsUpTo(n - 1)
       IN  shorter \cup { Append(ws, w) : ws \in {t \in shorter : Len(t) = n - 1},
                                          w \in RawWords }

Texts == { JoinSpace(ws) : ws \in WordSeqsUpTo(MaxWords) }

\* processFile calls extractKeywords(chunk), maxKeywords taking its default
MaxKeywordsArgs == {0, 1, 2, DefaultMaxKeywords}

InitKeywords ==
  /\ ChunkIdle
  /\ BuildIdle
  /\ WidgetIdle
  /\ call \in [fn : {"extractKeywords"}, content : Texts, maxKeywords : MaxKeywordsArgs]
  /\ ret = NoReturn

ExtractKeywordsReturns ==
  /\ call.fn = "extractKeywords" /\ ~ret.done
  /\ ret' = Returned(ExtractKeywords(call.content, call.maxKeywords))
  /\ UNCHANGED <<cvars, bvars, wvars, call>>

\* the same call made once more
ExtractKeywordsAgain ==
  /\ call.fn = "extractKeywords" /\ ret.done
  /\ ret' = Returned(ExtractKeywords(call.content, call.maxKeywords))
  /\ UNCHANGED <<cvars, bvars, wvars, call>>

NextKeywords == ExtractKeywordsReturns \/ ExtractKeywordsAgain

SpecKeywords == InitKeywords /\ [][NextKeywords]_vars

-----------------------------------------------------------------------------
(* Claims about extractKeywords, checked under SpecKeywords.               *)

\* C11: the keywords are returned by descending frequency and, at equal
\* frequency, by the order of their first occurrence in the text.
C11_ByFrequencyThenFirstOccurrence ==
  ret.done =>
    LET words == KeywordWords(call.content)
    IN  \A i, j \in 1..Len(ret.value) :
          i < j =>
            \/ Frequency(words, ret.value[i]) > Frequency(words, ret.value[j])
            \/ /\ Frequency(words, ret.value[i]) = Frequency(words, ret.value[j])
               /\ FirstIndex(words, ret.value[i]) < FirstIndex(words, ret.value[j])

\* C12: at most maxKeywords keywords are returned, all distinct, each longer
\* than 2 characters, none a stop word; the same call returns the same list.
C12_BoundedDistinctNoStopWords ==
  /\ [](ret.done =>
          /\ Len(ret.value) <= call.maxKeywords
          /\ \A i, j \in 1..Len(ret.value) : i # j => ret.value[i] # ret.value[j]
          /\ \A i \in 1..Len(ret.value) : Len(ret.value[i]) > 2 /\ ret.value[i] \notin stopWords)
  /\ [][ret.done => ret' = ret]_vars

\* C12's case: a text with a stop word and more tokens than asked for
C12_Witness ==
  /\ ret.done
  /\ call.maxKeywords = 1 /\ Len(ret.value) = 1
  /\ Cardinality(Range(KeywordWords(call.content))) >= 2
  /\ \E i \in 1..Len(SplitWords(call.content)) :
       SplitWords(call.content)[i] \in stopWords


-----------------------------------------------------------------------------
(* SpecSplit: splitIntoChunks run on every text up to MaxLen, trimmed or   *)
(* not, the empty text included.                                           *)

InitSplit ==
  /\ BuildIdle
  /\ CallIdle
  /\ content \in StringsUpTo(MaxLen)
  /\ chunkSize \in 1..MaxSize
  /\ overlap \in Overlaps
  /\ sentences = SplitSentences(content)
  /\ currentChunk = <<>>
  /\ splitChunks = <<>>
  /\ cpc = "loop"

SpecSplit == InitSplit /\ [][NextChunk]_vars

\* C13 as stated: no chunk is returned if and only if the text is empty.
C13_EmptyIffEmptyInput ==
  cpc = "done" => (splitChunks = <<>> <=> content = <<>>)

\* C13 amended: no chunk is returned if and only if the text is empty or
\* holds whitespace only; so for trimmed text, if and only if it is empty.
C13_EmptyIffBlankInput ==
  cpc = "done" => (splitChunks = <<>> <=> Trim(content) = <<>>)

\* C13's case: a text of whitespace only has been split
C13_Witness ==
  /\ cpc = "done"
  /\ content # <<>> /\ Trim(content) = <<>>
  /\ splitChunks = <<>>

\* C22: a step that closes a chunk seeds the next buffer with the last
\* min(floor(overlap / 5), w) words of the closed buffer, w being the number
\* of its whitespace-separated words, joined by blanks, then a blank and the
\* new sentence; with an overlap below 5 no word is carried over.
C22_SeedIsOverlapTail ==
  [][(cpc = "loop" /\ Len(splitChunks') = Len(splitChunks) + 1 /\ cpc' = "loop") =>
       LET ws == SplitWords(currentChunk)
           n  == Min({overlap \div 5, Len(ws)})
       IN  currentChunk' = JoinSpace(SubSeq(ws, Len(ws) - n + 1, Len(ws)))
                             \o <<" ">> \o Head(sentences)]_vars

-----------------------------------------------------------------------------
(* Further claims about a builder's run, checked under Spec.               *)

\* the id of record c is the digest of a path among files and of c's own
\* chunk index, the path being the one c's source was derived from
IdOfPathAndIndex(c, files) ==
  \E k \in 1..Len(files) :
    /\ c.id = <<files[k], c.chunkIndex>>
    /\ c.source = PathRelative(BaseDirOf(files[k], config), files[k])

\* C14: a chunk's id is determined by its file's path and its chunk index
\* alone: whatever the file holds, whichever requests fail and in whatever
\* order they settle, the record of chunk i of the file at path p carries
\* the digest of (p, i), in main's array and in the written index.
C14_IdFromPathAndIndexOnly ==
  /\ \A k \in 1..Len(chunks) : IdOfPathAndIndex(chunks[k], allFiles)
  /\ pc = "completed" =>
       \A k \in 1..Len(written.chunks) : IdOfPathAndIndex(written.chunks[k], allFiles)

\* C14's case: a completed embedding run in which a request failed and a
\* file gave several chunks
C14_Witness ==
  /\ mode = "embeddings" /\ pc = "completed"
  /\ Rejected # {}
  /\ \E k \in 1..Len(written.chunks) : written.chunks[k].chunkIndex >= 1


-----------------------------------------------------------------------------
(* SpecProcessFile: processFile of either builder called on a file whose   *)
(* body is a prefix, of any length, of the guide's text.                   *)

Bodies == { SubSeq(Trim(BodyGuide), 1, n) : n \in 0..Len(Trim(BodyGuide)) }

InitProcessFile ==
  /\ ChunkIdle
  /\ BuildIdle
  /\ WidgetIdle
  /\ \E m \in {"keyword", "embeddings"}, b \in Bodies, fm \in BOOLEAN :
     \E s \in ChunkSizeArgs \cup {DefaultConfig(m).chunkSize} :
       call = [ fn       |-> "processFile",
                m        |-> m,
                filePath |-> <<"docs", "a.md">>,
                doc      |-> [hasFm |-> fm,
                              lines |-> IF fm THEN <<TitleLine>> ELSE <<>>,
                              body  |-> b],
                config   |-> [DefaultConfig(m) EXCEPT !.chunkSize = s],
                baseDir  |-> <<"docs">> ]
  /\ ret = NoReturn

ProcessFileReturns ==
  /\ call.fn = "processFile" /\ ~ret.done
  /\ ret' = Returned(ProcessFile(call.filePath, call.doc, call.config,
                                 call.baseDir, call.m))
  /\ UNCHANGED <<cvars, bvars, wvars, call>>

SpecProcessFile == InitProcessFile /\ [][ProcessFileReturns]_vars

\* C15: processFile returns no chunk exactly when the normalized body is
\* shorter than 50 characters, and at least one chunk otherwise.
C15_NoChunkIffBelowFifty ==
  ret.done =>
    LET n == Len(CleanMarkdownContent(call.doc.body))
    IN  /\ n \in 0..49 => ret.value = <<>>
        /\ n >= 50 => Len(ret.value) >= 1

\* C15's case: processFile has returned for a normalized body of exactly 50
C15_Witness ==
  /\ ret.done
  /\ Len(CleanMarkdownContent(call.doc.body)) = 50
  /\ Len(ret.value) >= 1


\* the content files that lie under root in the tree
ContentFilesUnder(root) ==
  { f \in DOMAIN tree : IsMarkdownFile(f) /\ StartsWith(f, PathResolve(root)) }

\* the blog directory is not there, or holds no content file, and the docs
\* directory holds one at least
DocsOnlySite ==
  /\ pc # "idle"
  /\ ContentFilesUnder(config.blogDir) = {}
  /\ ContentFilesUnder(config.docsDir) # {}

\* C16: on a site whose blog directory is absent or without content files
\* and whose docs directory has a content file, no error comes from the blog
\* directory's absence and the run is not given up for want of files; once
\* completed it has written the artifact, totalFiles being the number of the
\* docs files.
C16_DocsOnlyBuildSucceeds ==
  DocsOnlySite =>
    /\ pc # "nofiles"
    /\ ~DirExists(config.blogDir, tree) => fatal # "readdir-blog"
    /\ pc \notin {"start", "aborted"} =>
         /\ blogFiles = <<>>
         /\ Len(allFiles) = Cardinality(ContentFilesUnder(config.docsDir))
    /\ pc = "completed" =>
         /\ artifact = "written"
         /\ written.stats.totalFiles = Cardinality(ContentFilesUnder(config.docsDir))

\* C16's case: a build over a site without blog directory has completed
C16_Witness ==
  /\ DocsOnlySite
  /\ ~DirExists(config.blogDir, tree)
  /\ pc = "completed"
  /\ written.stats.totalFiles >= 1


-----------------------------------------------------------------------------
(* SpecBaseDir: the file discovery of main() and the base directory its    *)
(* loop chooses for every file, the roots given as relative or as absolute *)
(* paths.                                                                  *)

\* the values of --docs and --blog: the relative ones and their absolute forms
RootArgs == Roots \cup { PathResolve(r) : r \in Roots }

\* for every file of allFiles: the root it was found under, the baseDir
\* main's loop passes to processFile, and the source and slug processFile
\* derives from it
BaseDirs(docsDir, blogDir, tr) ==
  LET docs == FindMarkdownFiles(docsDir, tr)
      all  == docs \o FindMarkdownFiles(blogDir, tr)
      cfg  == [docsDir |-> docsDir, blogDir |-> blogDir]
  IN  [ k \in 1..Len(all) |->
          [ file    |-> all[k],
            root    |-> IF k <= Len(docs) THEN docsDir ELSE blogDir,
            baseDir |-> BaseDirOf(all[k], cfg),
            source  |-> PathRelative(BaseDirOf(all[k], cfg), all[k]),
            slug    |-> Slug(PathRelative(BaseDirOf(all[k], cfg), all[k])) ] ]

InitBaseDir ==
  /\ ChunkIdle
  /\ BuildIdle
  /\ WidgetIdle
  /\ call \in [fn : {"baseDir"}, docsDir : RootArgs, blogDir : RootArgs, tree : Trees]
  /\ ret = NoReturn

BaseDirsChosen ==
  /\ call.fn = "baseDir" /\ ~ret.done
  /\ ret' = Returned(BaseDirs(call.docsDir, call.blogDir, call.tree))
  /\ UNCHANGED <<cvars, bvars, wvars, call>>

SpecBaseDir == InitBaseDir /\ [][BaseDirsChosen]_vars

\* C24: every file found under the docs root gets the docs root as its base
\* directory, every file found under the blog root the blog root, whether
\* the roots are relative or absolute; source and slug are the file's path
\* relative to that root, and neither starts with "..".
C24_BaseDirIsOwnRoot ==
  ret.done =>
    \A k \in 1..Len(ret.value) :
      LET r == ret.value[k]
      IN  /\ r.baseDir = r.root
          /\ r.source = PathRelative(r.root, r.file)
          /\ r.source[1] # ".." /\ r.slug[1] # ".."

-----------------------------------------------------------------------------
(* SpecFrontmatter: one line of a frontmatter block given to the loop body *)
(* of parseFrontmatter of both builders.                                   *)

MaxLine == 5      \* longest frontmatter line tried

LineAlphabet == {"k", ":", "\"", "'", " "}

RECURSIVE LinesUpTo(_)
LinesUpTo(n) ==
  IF n = 0 THEN { <<>> }
  ELSE LET shorter == LinesUpTo(n - 1)
       IN  shorter \cup { Append(s, c) : s \in {t \in shorter : Len(t) = n - 1},
                                         c \in LineAlphabet }

\* what the loop body does to metadata for one line
ParseLine(line, m) ==
  IF HasEntry(line)
  THEN [set |-> TRUE, key |-> EntryKey(line), value |-> EntryValue(line, m)]
  ELSE [set |-> FALSE]

InitFrontmatter ==
  /\ ChunkIdle
  /\ BuildIdle
  /\ WidgetIdle
  /\ call \in [fn : {"parseFrontmatter"}, line : LinesUpTo(MaxLine)]
  /\ ret = NoReturn

\* the line goes through the parser of each builder
ParseLineReturns ==
  /\ call.fn = "parseFrontmatter" /\ ~ret.done
  /\ ret' = Returned([ keyword    |-> ParseLine(call.line, "keyword"),
                       embeddings |-> ParseLine(call.line, "embeddings") ])
  /\ UNCHANGED <<cvars, bvars, wvars, call>>

SpecFrontmatter == InitFrontmatter /\ [][ParseLineReturns]_vars

\* the text after the first colon, trimmed
RawValue(line) == Trim(SubSeq(line, IndexOf(line, ":") + 1, Len(line)))

\* v without its enclosing quotes when it has a matching pair of them
WithoutMatchingPair(v) ==
  IF Len(v) >= 2 /\ IsQuote(v[1]) /\ v[Len(v)] = v[1]
  THEN SubSeq(v, 2, Len(v) - 1)
  ELSE v

\* C17: in both builders a line without colon, or with its colon first, sets
\* no entry; any other line sets the value after the colon, trimmed, without
\* one matching pair of enclosing quotes and with an unmatched quote kept;
\* so both builders set the same entry.
C17_SameEntryInBothBuilders ==
  ret.done =>
    /\ \A m \in {"keyword", "embeddings"} :
         IF IndexOf(call.line, ":") <= 1
         THEN ~ret.value[m].set
         ELSE /\ ret.value[m].set
              /\ ret.value[m].value = WithoutMatchingPair(RawValue(call.line))
    /\ ret.value.keyword = ret.value.embeddings


\* C18: the client is constructed with the region given with --region, and
\* every embedding request carries the model given with --model.
C18_RegionAndModelArgsUsed ==
  mode = "embeddings" =>
    /\ bedrockClient # "null" => bedrockClient = config.region
    /\ \A id \in modelIds : id = config.embeddingModel

\* C23: every record of a written embedding-mode index carries a vector,
\* whether the requests were rejected, answered with a vector or answered
\* without one, and the chunks left out are as many as stats.failedChunks.
C23_EveryWrittenChunkHasVector ==
  (mode = "embeddings" /\ pc = "completed") =>
    /\ \A k \in 1..Len(written.chunks) : written.chunks[k].embedding = "vector"
    /\ Len(chunks) - Len(written.chunks) = written.stats.failedChunks

\* what the processing loop of the embedding builder makes of each site
\* under each configuration: the triples of site, configuration and chunks
ProducedBy ==
  { << t, c, ChunksOfFiles(FindMarkdownFiles(c.docsDir, t) \o FindMarkdownFiles(c.blogDir, t),
                           c, t, "embeddings") >> :
      t \in Trees, c \in Configs("embeddings") }

Produced(t, c) == (CHOOSE x \in ProducedBy : x[1] = t /\ x[2] = c)[3]

\* the chunks array that the inputs of the run and the outcome of every
\* chunk's request determine: the chunks of the docs files, then of the blog
\* files, in discovery order and by ascending chunk index, without those
\* whose request was rejected, each with what its own request was answered
ChunksOfOutcomes ==
  LET produced == Produced(tree, config)
      kept == {k \in 1..Len(produced) : req[k] # "rejected"}
      Nth(n) == CHOOSE k \in kept : Cardinality({j \in kept : j < k}) = n - 1
  IN  [ n \in 1..Cardinality(kept) |->
          [produced[Nth(n)] EXCEPT
             !.embedding = IF req[Nth(n)] = "fulfilled" THEN "vector" ELSE "undefined"] ]

\* C26: the chunks array of a written embedding-mode index is determined by
\* the inputs of the run and the outcome of each chunk's request: its order
\* is that of discovery and chunk index and each record carries the answer
\* to its own request, in whatever order the requests of a batch settled.
C26_ChunksArrayIndependentOfCompletionOrder ==
  (mode = "embeddings" /\ pc = "completed") => written.chunks = ChunksOfOutcomes

\* the position in main's array of the chunk an error record names
ErrorPosition(e) == Min({k \in 1..Len(chunks) : chunks[k].id = errors[e].id})

\* C26's case: a completed run in which a later chunk of a batch was
\* rejected before an earlier one of it, a third one being answered
C26_Witness ==
  /\ mode = "embeddings" /\ pc = "completed"
  /\ Len(errors) = 2
  /\ ErrorPosition(1) > ErrorPosition(2)
  /\ BatchIndex(ErrorPosition(1)) = BatchIndex(ErrorPosition(2))
  /\ \E k \in DOMAIN req : req[k] = "fulfilled"
  /\ Len(written.chunks) >= 1

\* neither root has a content file under it
NoContentSite ==
  /\ pc # "idle"
  /\ ContentFilesUnder(config.docsDir) = {}
  /\ ContentFilesUnder(config.blogDir) = {}

\* C29: on a site where neither root yields a content file, the run of
\* either builder ends after the discovery, with exit status 1 once the
\* discovery has returned; it creates no output directory, writes no
\* artifact and leaves an old one alone, and sends no embedding request.
C29_NoFilesExitsWithoutOutput ==
  NoContentSite =>
    /\ pc \in {"start", "nofiles", "aborted"}
    /\ pc = "nofiles" => (exitCode = 1 /\ allFiles = <<>>)
    /\ pc = "aborted" => fatal \in {"readdir-docs", "readdir-blog"}
    /\ outDir = before.outDir /\ artifact = before.artifact /\ written = NoIndex
    /\ chunks = <<>> /\ req = <<>> /\ modelIds = {} /\ bedrockClient = "null"

\* C29's case: the embedding builder has given up on a site whose blog
\* directory holds no content file, an older artifact being in place
C29_Witness ==
  /\ NoContentSite
  /\ mode = "embeddings" /\ pc = "nofiles"
  /\ DirExists(config.blogDir, tree)
  /\ before.artifact = "old"

\* the records of idx that come from the document at path source, in order
RecordsOf(idx, source) == SelectSeq(idx.chunks, LAMBDA c : c.source = source)

\* C25: in a written index the records of one source document carry the
\* chunk indexes 0, 1, ..., n - 1 in this order and all the totalChunks n,
\* n being the number of the document's records in the index, in embedding
\* mode also when requests failed.
C25_SiblingsNumberedAndCounted ==
  pc = "completed" =>
    \A k \in 1..Len(written.chunks) :
      LET recs == RecordsOf(written, written.chunks[k].source)
      IN  \A i \in 1..Len(recs) :
            recs[i].chunkIndex = i - 1 /\ recs[i].totalChunks = Len(recs)


-----------------------------------------------------------------------------
(* The chat widget: src/src/theme/NovaChat/index.tsx.                      *)

\* String.prototype.includes
Includes(s, sub) ==
  \E i \in 0..(Len(s) - Len(sub)) : SubSeq(s, i + 1, i + Len(sub)) = sub

\* the keys of demoResponses in the order Object.entries lists them (none
\* is an array index): hello, help, aws, nova, bedrock, rag
DemoKeywords ==
  << << "h", "e", "l", "l", "o" >>,
     << "h", "e", "l", "p" >>,
     << "a", "w", "s" >>,
     << "n", "o", "v", "a" >>,
     << "b", "e", "d", "r", "o", "c", "k" >>,
     << "r", "a", "g" >> >>

\* for (const [keyword, response] of Object.entries(demoResponses)): the
\* response of the first keyword from position i on that the lower-cased
\* message includes, else the generic answer, which quotes the message
RECURSIVE DemoLookup(_, _, _)
DemoLookup(message, lowerMessage, i) ==
  IF i > Len(DemoKeywords) THEN [kind |-> "generic", question |-> message]
  ELSE IF Includes(lowerMessage, DemoKeywords[i])
       THEN [kind |-> "demo", keyword |-> DemoKeywords[i]]
       ELSE DemoLookup(message, lowerMessage, i + 1)

\* the catch block of callNovaAPI: the value it returns
DemoResponse(message) == DemoLookup(message, ToLowerCase(message), 1)

\* a catch block that throws the error on to the caller
OnApiFailureRethrown(message) == [settled |-> "rejected"]

\* try { ... } catch (error) { ... return ... }: how the promise of
\* callNovaAPI settles when its try block throws
OnApiFailure(message) == [settled |-> "resolved", response |-> DemoResponse(message)]

\* return { message: data.message || 'No response received.', ... }
OnApiSuccess(data) ==
  [ settled  |-> "resolved",
    response |-> IF data = "message"
                 THEN [kind |-> "backend", answer |-> "answer"]
                 ELSE [kind |-> "backend", answer |-> "No response received."] ]

\* the catch block of handleSend: 'Sorry, an error occurred. Please try again.'
SorryContent == [kind |-> "sorry"]

\* the messages of the state: id without its Date.now() part, timestamp
\* left out; the welcome message and the user's have no sources field
Welcome == [id |-> "welcome", role |-> "assistant", content |-> [kind |-> "welcome"]]

UserMessage(text) ==
  [id |-> "user", role |-> "user", content |-> [kind |-> "user", text |-> text]]

\* response.sources: the canned responses of aws, nova and bedrock list
\* sources; the bodies modelled for the backend have none
SourcesOf(response) ==
  IF response.kind = "demo"
     /\ response.keyword \in { << "a", "w", "s" >>, << "n", "o", "v", "a" >>,
                               << "b", "e", "d", "r", "o", "c", "k" >> }
  THEN "sources" ELSE "undefined"

\* a handleSend that awaits the call and shows nothing
AnswerForgotten(outcome) == << >>

\* the message handleSend appends after its await: assistantMessage in the
\* try block, errorMessage in the catch block
Answer(outcome) ==
  IF outcome.settled = "resolved"
  THEN << [ id |-> "assistant", role |-> "assistant",
            content |-> outcome.response, sources |-> SourcesOf(outcome.response) ] >>
  ELSE << [ id |-> "error", role |-> "assistant", content |-> SorryContent ] >>

\* a request body that carries the messages as they are
HistoryUnreduced(history) == history

\* history.map((m) => ({ role: m.role, content: m.content }))
History(history) ==
  [ i \in 1..Len(history) |-> [role |-> history[i].role, content |-> history[i].content] ]

\* a guard that lets every call through
IgnoresSendNever(text, loading) == FALSE

\* if (!input.trim() || isLoading) return;
IgnoresSend(text, loading) == Trim(text) = <<>> \/ loading


-----------------------------------------------------------------------------
(* SpecChat: a mounted widget, the user typing and sending up to MaxSends  *)
(* messages, the backend answering or failing in every way.                *)

MaxSends == 2     \* most messages the user sends
MaxCalls == 3     \* most calls of handleSend

\* the texts typed: Hello, HELP, nova on aws, what is rag?, hi, " bedrock ",
\* hello help, and one of blanks only
UserTexts ==
  { << "H", "e", "l", "l", "o" >>,
    << "H", "E", "L", "P" >>,
    << "n", "o", "v", "a", " ", "o", "n", " ", "a", "w", "s" >>,
    << "w", "h", "a", "t", " ", "i", "s", " ", "r", "a", "g", "?" >>,
    << "h", "i" >>,
    << " ", "b", "e", "d", "r", "o", "c", "k", " " >>,
    << "h", "e", "l", "l", "o", " ", "h", "e", "l", "p" >>,
    << " ", " " >> }

\* the bodies a 2xx response can carry: JSON with a message, JSON without
\* one, the JSON null
Bodies2xx == {"message", "nomessage", "null"}

UserMessages == SelectSeq(messages, LAMBDA m : m.role = "user")

\* the widget is mounted and the first effect has put the welcome message
InitChat ==
  /\ ChunkIdle
  /\ BuildIdle
  /\ call = <<>> /\ ret = NoReturn
  /\ messages = << Welcome >>
  /\ input = <<>>
  /\ isLoading = FALSE
  /\ request = NoRequest
  /\ enableRag \in BOOLEAN
  /\ inFlight = 0
  /\ handleSendCalls = <<>>

\* onChange: setInput(e.target.value); the textarea is disabled while loading
TypeInput(text) ==
  /\ ~isLoading
  /\ Len(UserMessages) < MaxSends
  /\ input' = text
  /\ UNCHANGED <<cvars, bvars, fvars, messages, isLoading, request, enableRag,
                 inFlight, handleSendCalls>>

\* what a call of handleSend met
CallMet == [isLoading |-> isLoading, blank |-> Trim(input) = <<>>]

\* handleSend up to its await: the user message is appended, the input
\* cleared, isLoading set, and callNovaAPI called with the messages of this
\* render, which sends the request and awaits fetch
HandleSend ==
  /\ Len(handleSendCalls) < MaxCalls
  /\ ~IgnoresSend(input, isLoading)
  /\ handleSendCalls' = Append(handleSendCalls, CallMet)
  /\ messages' = Append(messages, UserMessage(Trim(input)))
  /\ input' = <<>>
  /\ isLoading' = TRUE
  /\ request' = [ message |-> Trim(input),
                  history |-> History(messages),
                  useRag  |-> enableRag,
                  stage   |-> "fetch",
                  failure |-> "none",
                  outcome |-> [settled |-> "pending"] ]
  /\ inFlight' = inFlight + 1
  /\ UNCHANGED <<cvars, bvars, fvars, enableRag>>

\* handleSend when its guard holds: if (!input.trim() || isLoading) return
HandleSendIgnored ==
  /\ Len(handleSendCalls) < MaxCalls
  /\ IgnoresSend(input, isLoading)
  /\ handleSendCalls' = Append(handleSendCalls, CallMet)
  /\ UNCHANGED <<cvars, bvars, fvars, messages, input, isLoading, request, enableRag,
                 inFlight>>

\* fetch rejects (no network, CORS, ...): the catch block runs
FetchRejects ==
  /\ request.stage = "fetch"
  /\ request' = [request EXCEPT !.stage = "settled", !.failure = "network",
                                !.outcome = OnApiFailure(request.message)]
  /\ inFlight' = inFlight - 1
  /\ UNCHANGED <<cvars, bvars, fvars, messages, input, isLoading, enableRag,
                 handleSendCalls>>

\* fetch resolves with a status that is not 2xx: throw new Error(`API error`)
FetchRespondsNotOk ==
  /\ request.stage = "fetch"
  /\ request' = [request EXCEPT !.stage = "settled", !.failure = "status",
                                !.outcome = OnApiFailure(request.message)]
  /\ inFlight' = inFlight - 1
  /\ UNCHANGED <<cvars, bvars, fvars, messages, input, isLoading, enableRag,
                 handleSendCalls>>

\* fetch resolves with a 2xx status: callNovaAPI awaits response.json()
FetchRespondsOk ==
  /\ request.stage = "fetch"
  /\ request' = [request EXCEPT !.stage = "json"]
  /\ UNCHANGED <<cvars, bvars, fvars, messages, input, isLoading, enableRag,
                 inFlight, handleSendCalls>>

\* response.json() rejects: the body is no JSON
JsonRejects ==
  /\ request.stage = "json"
  /\ request' = [request EXCEPT !.stage = "settled", !.failure = "body",
                                !.outcome = OnApiFailure(request.message)]
  /\ inFlight' = inFlight - 1
  /\ UNCHANGED <<cvars, bvars, fvars, messages, input, isLoading, enableRag,
                 handleSendCalls>>

\* response.json() resolves; reading data.message of null throws a TypeError
JsonResolves(data) ==
  /\ request.stage = "json"
  /\ request' = IF data = "null"
                THEN [request EXCEPT !.stage = "settled", !.failure = "body",
                                     !.outcome = OnApiFailure(request.message)]
                ELSE [request EXCEPT !.stage = "settled",
                                     !.outcome = OnApiSuccess(data)]
  /\ inFlight' = inFlight - 1
  /\ UNCHANGED <<cvars, bvars, fvars, messages, input, isLoading, enableRag,
                 handleSendCalls>>

\* handleSend after its await: the assistant message, or the catch block's
\* message when callNovaAPI rejected; finally setIsLoading(false)
HandleSendResumes ==
  /\ request.stage = "settled"
  /\ messages' = messages \o Answer(request.outcome)
  /\ isLoading' = FALSE
  /\ request' = NoRequest
  /\ UNCHANGED <<cvars, bvars, fvars, input, enableRag, inFlight, handleSendCalls>>

NextChat ==
  \/ \E text \in UserTexts : TypeInput(text)
  \/ HandleSend
  \/ HandleSendIgnored
  \/ FetchRejects
  \/ FetchRespondsNotOk
  \/ FetchRespondsOk
  \/ JsonRejects
  \/ \E data \in Bodies2xx : JsonResolves(data)
  \/ HandleSendResumes

SpecChat == InitChat /\ [][NextChat]_vars

\* the steps by which the backend call settles
BackendSettles ==
  \/ FetchRejects \/ FetchRespondsNotOk \/ FetchRespondsOk \/ JsonRejects
  \/ \E data \in Bodies2xx : JsonResolves(data)

\* the backend call settles, and the event loop runs the continuation of
\* handleSend once the promise it awaits has settled
FairSpecChat ==
  InitChat /\ [][NextChat]_vars /\ WF_vars(BackendSettles) /\ WF_vars(HandleSendResumes)


-----------------------------------------------------------------------------
(* Claims about the chat widget, checked under SpecChat.                   *)

\* the canned response for message: that of the first of hello, help, aws,
\* nova, bedrock, rag that the lower-cased message holds, else the generic one
CannedResponse(message) ==
  LET order == << << "h", "e", "l", "l", "o" >>, << "h", "e", "l", "p" >>,
                  << "a", "w", "s" >>, << "n", "o", "v", "a" >>,
                  << "b", "e", "d", "r", "o", "c", "k" >>, << "r", "a", "g" >> >>
      hits  == {i \in 1..6 : IsSubstring(order[i], ToLowerCase(message))}
  IN  IF hits = {} THEN [kind |-> "generic", question |-> message]
      ELSE [kind |-> "demo", keyword |-> order[Min(hits)]]

\* C19: callNovaAPI never rejects; when the backend call fails (fetch
\* rejects, the status is not 2xx, the body cannot be used) it resolves to
\* the canned response of the first keyword the message holds, or the generic
\* one; the widget never shows handleSend's 'Sorry, an error occurred'.
C19_BackendFailureGivesCannedResponse ==
  /\ request.stage = "settled" =>
       /\ request.outcome.settled = "resolved"
       /\ request.failure # "none" =>
            request.outcome.response = CannedResponse(request.message)
  /\ \A i \in 1..Len(messages) : messages[i].content.kind # "sorry"

\* C19's case: the backend failed on "nova on aws", which holds two of the
\* keywords, and the widget shows the response of aws
C19_Witness ==
  /\ Len(messages) = 3
  /\ messages[2].content = [kind |-> "user",
                            text |-> << "n", "o", "v", "a", " ", "o", "n", " ", "a", "w", "s" >>]
  /\ messages[3].content = [kind |-> "demo", keyword |-> << "a", "w", "s" >>]

\* C27: at most one backend request is in flight, and only while isLoading;
\* a call of handleSend made while isLoading is true or the trimmed input is
\* empty appends no message, sends no request and leaves input and
\* isLoading as they are.
C27_OneRequestAndGuardedSend ==
  /\ [](inFlight <= 1 /\ (inFlight = 1 => isLoading))
  /\ [][(handleSendCalls' # handleSendCalls /\ (isLoading \/ Trim(input) = <<>>)) =>
          /\ messages' = messages
          /\ request' = request /\ inFlight' = inFlight
          /\ input' = input /\ isLoading' = isLoading]_vars

\* C27's case: handleSend was called while a request was pending, which is
\* still in flight, and once on a blank input
C27_Witness ==
  /\ inFlight = 1 /\ isLoading
  /\ Len(UserMessages) = 1
  /\ \E i, j \in 1..Len(handleSendCalls) :
       /\ handleSendCalls[i].isLoading
       /\ ~handleSendCalls[j].isLoading /\ handleSendCalls[j].blank

\* the list shows the welcome message, then user and assistant messages in
\* turn, the last user message unanswered exactly while isLoading
WelcomeThenAlternating ==
  /\ messages[1] = Welcome
  /\ \A i \in 2..Len(messages) :
       messages[i].role = IF i % 2 = 0 THEN "user" ELSE "assistant"
  /\ Len(messages) = 2 * Len(UserMessages) + (IF isLoading THEN 0 ELSE 1)

\* C28: every accepted send is answered: once the n-th user message is
\* shown and isLoading set, the widget comes to show exactly one assistant
\* message after it with isLoading false; messages are only ever appended,
\* one at a time, the welcome message first, user and assistant in turn.
C28_EverySendAnswered ==
  /\ \A n \in 1..MaxSends :
       (isLoading /\ Len(UserMessages) = n)
         ~> (~isLoading /\ Len(messages) = 2 * n + 1
                        /\ messages[2 * n].role = "user"
                        /\ messages[2 * n + 1].role = "assistant")
  /\ []WelcomeThenAlternating
  /\ [][/\ Len(messages') \in {Len(messages), Len(messages) + 1}
        /\ SubSeq(messages', 1, Len(messages)) = messages]_vars

\* C28's case: two sends have been answered
C28_Witness ==
  /\ ~isLoading /\ Len(messages) = 5
  /\ Len(UserMessages) = 2

\* C30: the body of a request carries as message the trimmed text of the
\* current user message, as history the messages shown before it, in order,
\* the welcome message first, each as its role and content only, and as
\* useRag the configured flag.
C30_HistoryIsEarlierMessages ==
  request.stage # "none" =>
    LET earlier == SubSeq(messages, 1, Len(messages) - 1)
        current == messages[Len(messages)]
    IN  /\ current.role = "user"
        /\ request.message = current.content.text
        /\ Len(request.history) = Len(earlier)
        /\ \A i \in 1..Len(earlier) :
             request.history[i] = [role |-> earlier[i].role, content |-> earlier[i].content]
        /\ request.history[1] = [role |-> "assistant", content |-> [kind |-> "welcome"]]
        /\ request.useRag = enableRag

\* C30's case: the second request of a conversation, RAG switched off, the
\* first answer shown with its sources
C30_Witness ==
  /\ request.stage = "fetch"
  /\ Len(request.history) = 3
  /\ messages[3].sources = "sources"
  /\ request.useRag = FALSE


-----------------------------------------------------------------------------
(* The retrieval query interface (spec.md 4.8).  Its code is that of the   *)
(* repository's src/lambda, which is not among the sources at hand; it is  *)
(* modelled from the contract: keyword-overlap scoring against each        *)
(* chunk's keyword set, ties broken by chunk position within the source,   *)
(* then by source path.                                                    *)

MaxK == 3         \* largest result count asked for

\* the source paths of the indexes queried, in ascending order
SourcePaths == << "blog/x.md", "docs/a.md" >>

SourceRank(source) == CHOOSE i \in 1..Len(SourcePaths) : SourcePaths[i] = source

\* a score that does not look at the keywords
ScoreOfNothing(chunk, query) == 0

\* the number of the query's tokens found in the chunk's keyword set
Score(chunk, query) == Cardinality(chunk.keywords \cap query)

\* a ranks before b for the query, the tie-break looking at the source first
RanksBeforeSourceFirst(a, b, query) ==
  \/ Score(a, query) > Score(b, query)
  \/ /\ Score(a, query) = Score(b, query)
     /\ \/ SourceRank(a.source) < SourceRank(b.source)
        \/ /\ a.source = b.source
           /\ a.chunkIndex < b.chunkIndex

\* a ranks before b for the query
RanksBefore(a, b, query) ==
  \/ Score(a, query) > Score(b, query)
  \/ /\ Score(a, query) = Score(b, query)
     /\ \/ a.chunkIndex < b.chunkIndex
        \/ /\ a.chunkIndex = b.chunkIndex
           /\ SourceRank(a.source) < SourceRank(b.source)

\* the chunks of set cs, best first
RECURSIVE Ranked(_, _)
Ranked(cs, query) ==
  IF cs = {} THEN <<>>
  ELSE LET best == CHOOSE a \in cs : \A b \in cs \ {a} : RanksBefore(a, b, query)
       IN  <<best>> \o Ranked(cs \ {best}, query)

\* the query: the k best chunks of the index
Retrieve(index, query, k) ==
  LET ranked == Ranked({index[i] : i \in 1..Len(index)}, query)
  IN  SubSeq(ranked, 1, Min({k, Len(ranked)}))

-----------------------------------------------------------------------------
(* SpecQuery: queries against keyword-mode indexes of up to four chunks.   *)

\* what extractKeywords can have left in a chunk's keyword set
KeywordSets == { {}, {"aws"}, {"aws", "nova"} }

Queries == { {"aws"}, {"aws", "nova"}, {"rag"} }

\* the indexes: each of two documents has no chunk, one or two
Indexes ==
  { x \o a :
      x \in {<<>>} \cup { << [source |-> "blog/x.md", chunkIndex |-> 0, keywords |-> k0] >> :
                            k0 \in KeywordSets }
               \cup { << [source |-> "blog/x.md", chunkIndex |-> 0, keywords |-> k0],
                         [source |-> "blog/x.md", chunkIndex |-> 1, keywords |-> k1] >> :
                            k0 \in KeywordSets, k1 \in KeywordSets },
      a \in {<<>>} \cup { << [source |-> "docs/a.md", chunkIndex |-> 0, keywords |-> k0] >> :
                            k0 \in KeywordSets }
               \cup { << [source |-> "docs/a.md", chunkIndex |-> 0, keywords |-> k0],
                         [source |-> "docs/a.md", chunkIndex |-> 1, keywords |-> k1] >> :
                            k0 \in KeywordSets, k1 \in KeywordSets } }

InitQuery ==
  /\ ChunkIdle
  /\ BuildIdle
  /\ WidgetIdle
  /\ call \in [fn : {"retrieve"}, index : Indexes, query : Queries, k : 0..MaxK]
  /\ ret = NoReturn

RetrieveReturns ==
  /\ call.fn = "retrieve" /\ ~ret.done
  /\ ret' = Returned(Retrieve(call.index, call.query, call.k))
  /\ UNCHANGED <<cvars, bvars, wvars, call>>

\* the same query once more
RetrieveAgain ==
  /\ call.fn = "retrieve" /\ ret.done
  /\ ret' = Returned(Retrieve(call.index, call.query, call.k))
  /\ UNCHANGED <<cvars, bvars, wvars, call>>

NextQuery == RetrieveReturns \/ RetrieveAgain

SpecQuery == InitQuery /\ [][NextQuery]_vars

\* the number of the query's tokens among the chunk's keywords
Relevance(chunk) == Cardinality({t \in call.query : t \in chunk.keywords})

\* C20: the query returns the K most relevant chunks (all of them when the
\* index has fewer), most relevant first; chunks of equal relevance stand by
\* chunk position within their source, then by source path; the same query
\* on the same index returns the same chunks in the same order.
C20_TopKRankedWithTieBreak ==
  /\ [](ret.done =>
          LET r == ret.value
              InIndex == {call.index[i] : i \in 1..Len(call.index)}
              Got == {r[i] : i \in 1..Len(r)}
          IN  /\ Len(r) = Min({call.k, Len(call.index)})
              /\ Got \subseteq InIndex
              /\ Cardinality(Got) = Len(r)
              /\ \A c \in InIndex \ Got, g \in Got : Relevance(c) <= Relevance(g)
              /\ \A i, j \in 1..Len(r) :
                   i < j =>
                     \/ Relevance(r[i]) > Relevance(r[j])
                     \/ /\ Relevance(r[i]) = Relevance(r[j])
                        /\ r[i].chunkIndex < r[j].chunkIndex
                     \/ /\ Relevance(r[i]) = Relevance(r[j])
                        /\ r[i].chunkIndex = r[j].chunkIndex
                        /\ r[i].source = "blog/x.md" /\ r[j].source = "docs/a.md")
  /\ [][ret.done => ret' = ret]_vars

\* C20's case: three chunks were asked for of an index of four, all equally
\* relevant to the query
C20_Witness ==
  /\ ret.done
  /\ call.k = 3 /\ Len(call.index) = 4 /\ Len(ret.value) = 3
  /\ \A i \in 1..4 : Relevance(call.index[i]) = 1

HasAws(chunk) == "aws" \in chunk.keywords

\* C21: for the query "aws" every returned chunk whose keyword set holds
\* "aws" stands above every returned chunk whose set does not, and no chunk
\* with "aws" is left out of the K results while one without it is returned.
C21_AwsChunksRankedAbove ==
  (ret.done /\ call.query = {"aws"}) =>
    LET r == ret.value
        Got == {r[i] : i \in 1..Len(r)}
        Left == {call.index[i] : i \in 1..Len(call.index)} \ Got
    IN  /\ \A i, j \in 1..Len(r) : (HasAws(r[i]) /\ ~HasAws(r[j])) => i < j
        /\ \A c \in Left, g \in Got : HasAws(c) => HasAws(g)

\* C21's case: the index lists a chunk without "aws" first and one with it
\* later, and the query returned both
C21_Witness ==
  /\ ret.done /\ call.query = {"aws"}
  /\ Len(call.index) >= 2 /\ ~HasAws(call.index[1])
  /\ Len(ret.value) >= 2
  /\ HasAws(ret.value[1]) /\ ~HasAws(ret.value[Len(ret.value)])

====
